---- MODULE Spec2Model ----
(***************************************************************************)
(* queuectl: the scheduling engine of the job queue.                       *)
(*                                                                         *)
(* The parent process is single-threaded: every handler (a tick, a worker  *)
(* message, a worker exit, an HTTP request) runs to completion, so each is *)
(* one action.  Worker children are separate processes; the IPC channels   *)
(* between parent and child are ordered queues.  A child's 'exit' event    *)
(* and the 'message' events of what it sent before dying are delivered     *)
(* independently, so a message may be handled after its sender's exit.     *)
(*                                                                         *)
(* The column updated_at is written on every UPDATE but never read by the  *)
(* engine; it is left out of the rows.                                     *)
(***************************************************************************)
EXTENDS Integers, Sequences, FiniteSets, TLC

\* ---------------------------------------------------------------- bounds
MaxPids == 2          \* child processes ever forked (initial workers + respawns)
MaxTime == 1          \* the clock runs 0..MaxTime
MaxFailures == 4      \* the history counter `failures` stops counting here
MaxRequeues == 1      \* the history counter `requeues` stops counting here
MaxReported == 2      \* the history counters of `reported` stop counting here

\* ---------------------------------------------------------------- inputs
\* A job's max_retries column: <<>> is SQL NULL, <<n>> the integer n.
NULL == <<>>

\* The request bodies of POST /enqueue.  "unknown" is an ordinary id for a
\* client; it is also the id the worker child puts in its invalid-job
\* reply.  The command "" is one the child rejects as invalid, "exit 0"
\* succeeds and "exit 1" fails.
Body(id, command, max_retries, run_after) ==
  [id |-> id, command |-> command, max_retries |-> max_retries,
   run_after |-> run_after]

JobIds == {"a", "unknown"}

VARIABLES
  jobs,            \* the jobs table: job id -> row
  config,          \* the in-memory config object: key -> value, an integer as
                   \* parseInt reads it for a recognized key, else its text
  workerQueue,     \* WorkerManager.workerQueue: idle workers, in order
  workerJobMap,    \* WorkerManager.workerJobMap: pid -> job id
  live,            \* pids of forked children whose exit has not been handled
  nextPid,         \* the pid the next fork gets
  toChild,         \* pid -> jobs sent to the child and not yet run
  toParent,        \* pid -> messages sent by the child and not yet handled
  isShuttingDown,  \* state.isShuttingDown
  isDbChanged,     \* state.isDbChanged
  idleListener,    \* workerManager.once('idle', ...) is registered
  exited,          \* process.exit was called
  exitCode,        \* the code it was called with: <<>> before, <<n>> after
  saved,           \* what the last saveDb call returned: "none", "ok", "failed"
  disk,            \* the snapshot in queue.db
  now,             \* Date.now()
  last,            \* the HTTP request handled last and its response
  failures,        \* history: job id -> failed replies of workers bound to it
                   \* since it was enqueued or last requeued from the DLQ
  requeues,        \* history: job id -> DLQ requeues of the row
  reported,        \* history: job id -> the completed and the failed replies
                   \* that named it since it was enqueued
  running          \* pid -> <<>>, or <<r>> for the job message the child received
                   \* last: its job, the hasFailed flag of its handler, the
                   \* events of the command still to come, the replies sent

vars == <<jobs, config, workerQueue, workerJobMap, live, nextPid, toChild,
          toParent, isShuttingDown, isDbChanged, idleListener, exited, exitCode, saved, disk,
          now, last, failures, requeues, reported, running>>

Pids == 1..MaxPids

\* ------------------------------------------------------------ helpers
\* What `last` records of an HTTP request: the operation, the job id or
\* config key it named, the status of the response and the count a retry-all
\* response reports.
Op(name, id, status, count) ==
  [op |-> name, id |-> id, status |-> status, count |-> count]

\* `last` after a step that is not the handling of a request.
NoRequest == Op("", "", 0, 0)

RECURSIVE Pow(_, _)
Pow(b, e) == IF e = 0 THEN 1 ELSE b * Pow(b, e - 1)

\* Array.indexOf + splice(index, 1): drops the first occurrence only.
RECURSIVE RemoveFirst(_, _)
RemoveFirst(q, w) ==
  IF q = <<>> THEN <<>>
  ELSE IF Head(q) = w THEN Tail(q)
  ELSE <<Head(q)>> \o RemoveFirst(Tail(q), w)

MapDelete(m, w) == [p \in (DOMAIN m) \ {w} |-> m[p]]
MapSet(m, w, j) == [p \in (DOMAIN m) \cup {w} |-> IF p = w THEN j ELSE m[p]]

\* getProcessingJobCount
ProcessingJobCount == Cardinality(DOMAIN workerJobMap)

\* The job object the tick reads with SELECT * and sends to the child: the
\* row as it was before the UPDATE, with the fields the child and the reply
\* handler read.
JobObject(id) ==
  [id |-> id, command |-> jobs[id].command, attempts |-> jobs[id].attempts,
   max_retries |-> jobs[id].max_retries]

\* ------------------------------------------------------- initial state
\* startWorkers: the store is open, the config is loaded, init(count) has
\* forked the workers; each child sends {status: 'ready'} when it starts.
InitWith(counts, configs) ==
  /\ jobs = <<>>
  /\ config \in configs
  /\ workerQueue = <<>>
  /\ workerJobMap = <<>>
  /\ \E count \in counts :
       /\ live = 1..count
       /\ nextPid = count + 1
       /\ toParent = [p \in Pids |-> IF p <= count THEN <<[status |-> "ready"]>> ELSE <<>>]
  /\ toChild = [p \in Pids |-> <<>>]
  /\ isShuttingDown = FALSE
  /\ isDbChanged = FALSE
  /\ idleListener = FALSE
  /\ exited = FALSE
  /\ exitCode = NULL
  /\ saved = "none"
  /\ disk = [jobs |-> <<>>, config |-> config]
  /\ now = 0
  /\ last = NoRequest
  /\ failures = <<>>
  /\ requeues = <<>>
  /\ reported = <<>>
  /\ running = [p \in Pids |-> <<>>]

\* ------------------------------------------------------------ the clock
AdvanceClock ==
  /\ ~exited
  /\ now < MaxTime
  /\ now' = now + 1
  /\ last' = NoRequest
  /\ UNCHANGED <<running, reported, failures, requeues,
                 jobs, config, workerQueue, workerJobMap, live, nextPid,
                 toChild, toParent, isShuttingDown, isDbChanged, idleListener,
                 exited, exitCode, saved, disk>>

\* ------------------------------------------------------------ scheduler
\* Variant: WHERE state = 'pending', whatever run_after says.
EligibleAtOnce(j) ==
  /\ j \in DOMAIN jobs
  /\ jobs[j].state = "pending"

\* WHERE state = 'pending' AND run_after <= $now
Eligible(j) ==
  /\ j \in DOMAIN jobs
  /\ jobs[j].state = "pending"
  /\ jobs[j].run_after <= now

\* ORDER BY created_at ASC LIMIT 1: the query names no second sort key, so
\* among eligible rows of equal created_at the engine may return any.
NextJobs ==
  {j \in DOMAIN jobs :
     /\ Eligible(j)
     /\ \A k \in DOMAIN jobs : Eligible(k) => jobs[j].created_at <= jobs[k].created_at}

\* Variant: the tick without the shutdown guard.
TickWhileShuttingDown ==
  /\ ~exited
  /\ workerQueue # <<>>
  /\ \E j \in NextJobs :
       LET worker == Head(workerQueue) IN
       /\ workerQueue' = Tail(workerQueue)
       /\ jobs' = [jobs EXCEPT ![j].state = "processing"]
       /\ isDbChanged' = TRUE
       /\ workerJobMap' = MapSet(workerJobMap, worker, j)
       /\ toChild' = IF worker \in live
                     THEN [toChild EXCEPT ![worker] = Append(@, JobObject(j))]
                     ELSE toChild
       /\ last' = NoRequest
  /\ UNCHANGED <<running,
                 reported, failures, requeues, config, live, nextPid, toParent, isShuttingDown,
                 idleListener, exited, exitCode, saved, disk, now>>

\* WorkerManager.tick.  isTicking is set and cleared inside the one
\* synchronous call, so it is never seen set.  worker.send to a child whose
\* channel is closed delivers nothing.
Tick ==
  /\ ~exited
  /\ ~isShuttingDown
  /\ workerQueue # <<>>
  /\ \E j \in NextJobs :
       LET worker == Head(workerQueue) IN
       /\ workerQueue' = Tail(workerQueue)
       /\ jobs' = [jobs EXCEPT ![j].state = "processing"]
       /\ isDbChanged' = TRUE
       /\ workerJobMap' = MapSet(workerJobMap, worker, j)
       /\ toChild' = IF worker \in live
                     THEN [toChild EXCEPT ![worker] = Append(@, JobObject(j))]
                     ELSE toChild
       /\ last' = NoRequest
  /\ UNCHANGED <<running,
                 reported, failures, requeues, config, live, nextPid, toParent, isShuttingDown,
                 idleListener, exited, exitCode, saved, disk, now>>

\* --------------------------------------------------------- worker child
\* process.on('message') of worker_child.js: one terminal reply per job.
ChildReply(job) ==
  IF job.command = ""
  THEN [status |-> "failed", job |-> [id |-> "unknown"]]
  ELSE IF job.command = "exit 0"
  THEN [status |-> "completed", job |-> job]
  ELSE [status |-> "failed", job |-> job]

ChildRun(w) ==
  /\ ~exited
  /\ w \in live
  /\ toChild[w] # <<>>
  /\ toChild' = [toChild EXCEPT ![w] = Tail(@)]
  /\ toParent' = [toParent EXCEPT ![w] = Append(@, ChildReply(Head(toChild[w])))]
  /\ last' = NoRequest
  /\ UNCHANGED <<running, reported, failures, requeues,
                 jobs, config, workerQueue, workerJobMap, live, nextPid,
                 isShuttingDown, isDbChanged, idleListener, exited, exitCode, saved, disk, now>>

\* The same handler event by event: the job message, then the 'close' and
\* the 'error' event of the spawned command, each handled as a step of its
\* own and in the order the runtime emits them.

\* The exit status the shell gives the command.
ExitCode(command) == IF command = "exit 0" THEN 0 ELSE 1

\* A command of blanks: parse gives no token and spawn(undefined) throws.
Throws(command) == command = " "

\* The codes 'close' may carry: the command's exit status, or the negative
\* errno of a spawn that failed once 'error' has been emitted.
CloseCodes(r) ==
  IF "error" \in r.events THEN {ExitCode(r.job.command)} ELSE {-1, ExitCode(r.job.command)}

\* sendFailure: at most one failed reply per job message.
SendFailure(r) ==
  IF r.hasFailed THEN r ELSE [r EXCEPT !.hasFailed = TRUE, !.sent = Append(@, "failed")]

\* child.on('close', code)
OnClose(r, code) ==
  IF code = 0 /\ ~r.hasFailed
  THEN [r EXCEPT !.sent = Append(@, "completed")]
  ELSE IF code # 0 THEN SendFailure(r) ELSE r

\* child.on('error', err)
OnError(r) == SendFailure(r)

\* The handler of the job message up to its return: the invalid-job reply,
\* or the catch around parse and spawn, or the command started.
OnMessage(job) ==
  LET r == [job |-> job, hasFailed |-> FALSE, events |-> {}, sent |-> <<>>] IN
  IF job.command = ""
  THEN [r EXCEPT !.sent = <<"failed">>]
  ELSE IF Throws(job.command)
  THEN SendFailure(r)
  ELSE [r EXCEPT !.events = {"close", "error"}]

\* process.send of the replies a step added, in order.
Sent(old, new) ==
  [i \in 1..(Len(new.sent) - Len(old)) |->
     [status |-> new.sent[Len(old) + i],
      job |-> IF new.job.command = "" THEN [id |-> "unknown"] ELSE new.job]]

ChildReceive(w) ==
  /\ ~exited
  /\ w \in live
  /\ toChild[w] # <<>>
  /\ IF running[w] = <<>> THEN TRUE ELSE running[w][1].sent # <<>>
  /\ LET r == OnMessage(Head(toChild[w])) IN
       /\ running' = [running EXCEPT ![w] = <<r>>]
       /\ toParent' = [toParent EXCEPT ![w] = @ \o Sent(<<>>, r)]
  /\ toChild' = [toChild EXCEPT ![w] = Tail(@)]
  /\ last' = NoRequest
  /\ UNCHANGED <<reported, failures, requeues,
                 jobs, config, workerQueue, workerJobMap, live, nextPid,
                 isShuttingDown, isDbChanged, idleListener, exited, exitCode, saved, disk, now>>

ChildEvent(w, event, r) ==
  /\ running' = [running EXCEPT ![w] = <<[r EXCEPT !.events = @ \ {event}]>>]
  /\ toParent' = [toParent EXCEPT ![w] = @ \o Sent(running[w][1].sent, r)]
  /\ last' = NoRequest
  /\ UNCHANGED <<reported, failures, requeues, toChild,
                 jobs, config, workerQueue, workerJobMap, live, nextPid,
                 isShuttingDown, isDbChanged, idleListener, exited, exitCode, saved, disk, now>>

ChildClose(w) ==
  /\ ~exited
  /\ w \in live
  /\ running[w] # <<>>
  /\ "close" \in running[w][1].events
  /\ \E code \in CloseCodes(running[w][1]) : ChildEvent(w, "close", OnClose(running[w][1], code))

ChildError(w) ==
  /\ ~exited
  /\ w \in live
  /\ running[w] # <<>>
  /\ "error" \in running[w][1].events
  /\ ChildEvent(w, "error", OnError(running[w][1]))

\* ------------------------------------------------------------- snapshot
\* Variant: the export is written over queue.db itself, so a write that
\* fails leaves a torn file.
SaveDbInPlace(ok, image) ==
  IF ok THEN image ELSE [jobs |-> <<>>, config |-> <<>>]

\* saveDb: write the export of the store to queue.db.tmp and rename it over
\* queue.db; ok says whether both succeeded.  A write that fails, or is cut
\* short, touches only queue.db.tmp, and the rename is not reached, so the
\* file is left as it was when they did not.
SaveDb(ok, image) == IF ok THEN image ELSE disk

\* Variant: the final snapshot is of the store as it was when the handler
\* began, before the reply was applied.
AwaitIdleAndExitEarly(ok, image) ==
  /\ disk' = SaveDb(ok, [jobs |-> jobs, config |-> config])
  /\ saved' = IF ok THEN "ok" ELSE "failed"
  /\ exited' = TRUE
  /\ exitCode' = <<0>>

\* awaitIdleAndExit: save, then process.exit(0) whatever saveDb returned.
AwaitIdleAndExit(ok, image) ==
  /\ disk' = SaveDb(ok, image)
  /\ saved' = IF ok THEN "ok" ELSE "failed"
  /\ exited' = TRUE
  /\ exitCode' = <<0>>

\* --------------------------------------------------------- retry policy
\* Variant: a failure counts double.
NewAttemptsTwice(job) ==
  (IF "attempts" \in DOMAIN job THEN job.attempts ELSE 0) + 2

\* (job.attempts || 0) + 1
NewAttempts(job) ==
  (IF "attempts" \in DOMAIN job THEN job.attempts ELSE 0) + 1

\* Variant: job.max_retries || config.max_retries, which takes a cap of 0 for
\* a missing one.
MaxRetriesOr(job) ==
  IF "max_retries" \in DOMAIN job /\ job.max_retries # NULL /\ job.max_retries[1] # 0
  THEN job.max_retries[1]
  ELSE config.max_retries

\* job.max_retries ?? parseInt(this.config.max_retries, 10)
MaxRetries(job) ==
  IF "max_retries" \in DOMAIN job /\ job.max_retries # NULL
  THEN job.max_retries[1]
  ELSE config.max_retries

\* Variant: newAttempts >= maxRetries, one retry short.
NewStateAtCap(newAttempts, maxRetries) ==
  IF newAttempts >= maxRetries THEN "dead" ELSE "pending"

\* newAttempts > maxRetries ? 'dead' : 'pending'
NewState(newAttempts, maxRetries) ==
  IF newAttempts > maxRetries THEN "dead" ELSE "pending"

\* Date.now() + Math.pow(base, newAttempts) * factor
NewRunAfter(newAttempts) ==
  now + Pow(config.backoff_base, newAttempts) * config.backoff_factor_ms

\* The jobs table after the UPDATE of a terminal reply.
ApplyReply(message) ==
  LET job == message.job IN
  IF job.id \notin DOMAIN jobs THEN jobs
  ELSE IF message.status = "completed"
  THEN [jobs EXCEPT ![job.id].state = "completed"]
  ELSE LET newAttempts == NewAttempts(job) IN
       [jobs EXCEPT ![job.id].state = NewState(newAttempts, MaxRetries(job)),
                    ![job.id].attempts = newAttempts,
                    ![job.id].run_after = NewRunAfter(newAttempts)]

\* The history of a job no reply has named yet.
NoReplies == [completed |-> 0, failed |-> 0]

\* The history of replies after the terminal reply: one more completed or
\* failed reply for the id the reply names, when the table has that id.
Reported(message) ==
  LET j == message.job.id IN
  IF j \notin DOMAIN jobs THEN reported
  ELSE IF message.status = "completed"
  THEN [reported EXCEPT ![j].completed = IF @ < MaxReported THEN @ + 1 ELSE @]
  ELSE [reported EXCEPT ![j].failed = IF @ < MaxReported THEN @ + 1 ELSE @]

\* The history counter after one more failed reply for job id j.
Counted(j) ==
  [failures EXCEPT ![j] = IF @ < MaxFailures THEN @ + 1 ELSE @]

\* ------------------------------------------------------- worker messages
\* WorkerManager.handleWorkerMessage, for the message at the head of the
\* worker's channel.  Every job object carries a non-empty id, so the
\* "invalid job" branch is never taken.
HandleWorkerMessage(w) ==
  /\ ~exited
  /\ toParent[w] # <<>>
  /\ LET message == Head(toParent[w]) IN
     /\ toParent' = [toParent EXCEPT ![w] = Tail(@)]
     /\ workerQueue' = Append(workerQueue, w)
     /\ IF message.status = "ready"
        THEN /\ last' = NoRequest
             /\ UNCHANGED <<jobs, workerJobMap, isDbChanged, idleListener,
                            exited, exitCode, saved, disk, failures, requeues,
                            reported>>
        ELSE /\ workerJobMap' = MapDelete(workerJobMap, w)
             /\ failures' = IF message.status = "failed" /\ w \in DOMAIN workerJobMap
                            THEN Counted(workerJobMap[w])
                            ELSE failures
             /\ UNCHANGED requeues
             /\ reported' = Reported(message)
             /\ jobs' = ApplyReply(message)
             /\ isDbChanged' = TRUE
             /\ last' = NoRequest
             /\ IF isShuttingDown /\ DOMAIN workerJobMap' = {} /\ idleListener
                THEN /\ idleListener' = FALSE
                     /\ \E ok \in BOOLEAN :
                          AwaitIdleAndExit(ok, [jobs |-> jobs', config |-> config])
                ELSE UNCHANGED <<idleListener, exited, exitCode, saved, disk>>
  /\ UNCHANGED <<running, config, live, nextPid, toChild, isShuttingDown, now>>

\* ---------------------------------------------------------- worker exit
\* Variant: the reset also counts the crash as an attempt.
ResetStuckJobCounted(workerPid) ==
  IF workerPid \in DOMAIN workerJobMap
  THEN LET stuckJobId == workerJobMap[workerPid] IN
       IF stuckJobId \in DOMAIN jobs /\ jobs[stuckJobId].state = "processing"
       THEN [jobs EXCEPT ![stuckJobId].state = "pending",
                         ![stuckJobId].attempts = @ + 1]
       ELSE jobs
  ELSE jobs

\* resetStuckJob: the jobs table after
\* UPDATE ... SET state = 'pending' WHERE id = $id AND state = 'processing'
ResetStuckJob(workerPid) ==
  IF workerPid \in DOMAIN workerJobMap
  THEN LET stuckJobId == workerJobMap[workerPid] IN
       IF stuckJobId \in DOMAIN jobs /\ jobs[stuckJobId].state = "processing"
       THEN [jobs EXCEPT ![stuckJobId].state = "pending"]
       ELSE jobs
  ELSE jobs

\* Variant: spawnWorker without its shutting-down guard, so an exit is
\* always followed by a replacement.
WorkerExitRespawning(w) ==
  /\ ~exited
  /\ w \in live
  /\ nextPid <= MaxPids
  /\ workerQueue' = RemoveFirst(workerQueue, w)
  /\ jobs' = ResetStuckJob(w)
  /\ isDbChanged' = IF w \in DOMAIN workerJobMap THEN TRUE ELSE isDbChanged
  /\ workerJobMap' = MapDelete(workerJobMap, w)
  /\ toChild' = [toChild EXCEPT ![w] = <<>>]
  /\ live' = (live \ {w}) \cup {nextPid}
  /\ nextPid' = nextPid + 1
  /\ toParent' = [toParent EXCEPT ![nextPid] = <<[status |-> "ready"]>>]
  /\ last' = NoRequest
  /\ running' = [running EXCEPT ![w] = <<>>]
  /\ UNCHANGED <<reported, failures, requeues, config, isShuttingDown, idleListener,
                 exited, exitCode, saved, disk, now>>

\* The 'exit' handler spawnWorker attaches: the child has died (crashed or
\* was killed); the jobs it was sent and had not run die with it.
WorkerExit(w) ==
  /\ ~exited
  /\ w \in live
  /\ isShuttingDown \/ nextPid <= MaxPids
  /\ workerQueue' = RemoveFirst(workerQueue, w)
  /\ jobs' = ResetStuckJob(w)
  /\ isDbChanged' = IF w \in DOMAIN workerJobMap THEN TRUE ELSE isDbChanged
  /\ workerJobMap' = MapDelete(workerJobMap, w)
  /\ toChild' = [toChild EXCEPT ![w] = <<>>]
  /\ IF isShuttingDown
     THEN /\ live' = live \ {w}
          /\ UNCHANGED <<nextPid, toParent>>
     ELSE /\ live' = (live \ {w}) \cup {nextPid}
          /\ nextPid' = nextPid + 1
          /\ toParent' = [toParent EXCEPT ![nextPid] = <<[status |-> "ready"]>>]
  /\ last' = NoRequest
  /\ running' = [running EXCEPT ![w] = <<>>]
  /\ UNCHANGED <<reported, failures, requeues, config, isShuttingDown, idleListener,
                 exited, exitCode, saved, disk, now>>

\* ------------------------------------------------------------- enqueue
\* Variant: the row is inserted with no delay whatever the body asks for.
NewJobNoDelay(jobData) ==
  [command |-> jobData.command, state |-> "pending", attempts |-> 0,
   max_retries |-> jobData.max_retries, run_after |-> 0,
   created_at |-> now]

\* enqueueJob: the row INSERTed for the request body.
NewJob(jobData) ==
  [command |-> jobData.command, state |-> "pending", attempts |-> 0,
   max_retries |-> jobData.max_retries, run_after |-> jobData.run_after,
   created_at |-> now]

\* Variant: POST /enqueue without the shutdown guard.
EnqueueWhileShuttingDown(jobData) ==
  /\ ~exited
  /\ IF jobData.id \in DOMAIN jobs
     THEN /\ last' = Op("enqueue", jobData.id, 500, 0)
          /\ UNCHANGED <<jobs, isDbChanged, failures, requeues, reported>>
     ELSE /\ jobs' = [j \in (DOMAIN jobs) \cup {jobData.id} |->
                        IF j = jobData.id THEN NewJob(jobData) ELSE jobs[j]]
          /\ failures' = [j \in (DOMAIN jobs) \cup {jobData.id} |->
                            IF j = jobData.id THEN 0 ELSE failures[j]]
          /\ requeues' = [j \in (DOMAIN jobs) \cup {jobData.id} |->
                            IF j = jobData.id THEN 0 ELSE requeues[j]]
          /\ reported' = [j \in (DOMAIN jobs) \cup {jobData.id} |->
                            IF j = jobData.id THEN NoReplies ELSE reported[j]]
          /\ isDbChanged' = TRUE
          /\ last' = Op("enqueue", jobData.id, 201, 0)
  /\ UNCHANGED <<running, config, workerQueue, workerJobMap, live, nextPid, toChild,
                 toParent, isShuttingDown, idleListener, exited, exitCode, saved, disk, now>>

\* Variant: INSERT OR REPLACE, which overwrites the row of an id the table
\* holds.
EnqueueOrReplace(jobData) ==
  /\ ~exited
  /\ IF isShuttingDown
     THEN /\ last' = Op("enqueue", jobData.id, 503, 0)
          /\ UNCHANGED <<jobs, isDbChanged, failures, requeues, reported>>
     ELSE /\ jobs' = [j \in (DOMAIN jobs) \cup {jobData.id} |->
                        IF j = jobData.id THEN NewJob(jobData) ELSE jobs[j]]
          /\ failures' = [j \in (DOMAIN jobs) \cup {jobData.id} |->
                            IF j = jobData.id THEN 0 ELSE failures[j]]
          /\ requeues' = [j \in (DOMAIN jobs) \cup {jobData.id} |->
                            IF j = jobData.id THEN 0 ELSE requeues[j]]
          /\ reported' = [j \in (DOMAIN jobs) \cup {jobData.id} |->
                            IF j = jobData.id THEN NoReplies ELSE reported[j]]
          /\ isDbChanged' = TRUE
          /\ last' = Op("enqueue", jobData.id, 201, 0)
  /\ UNCHANGED <<running, config, workerQueue, workerJobMap, live, nextPid, toChild,
                 toParent, isShuttingDown, idleListener, exited, exitCode, saved, disk, now>>

\* POST /enqueue.  id is PRIMARY KEY: the INSERT of an id the table holds
\* throws, and the route answers 500.
Enqueue(jobData) ==
  /\ ~exited
  /\ IF isShuttingDown
     THEN /\ last' = Op("enqueue", jobData.id, 503, 0)
          /\ UNCHANGED <<jobs, isDbChanged, failures, requeues, reported>>
     ELSE IF jobData.id \in DOMAIN jobs
     THEN /\ last' = Op("enqueue", jobData.id, 500, 0)
          /\ UNCHANGED <<jobs, isDbChanged, failures, requeues, reported>>
     ELSE /\ jobs' = [j \in (DOMAIN jobs) \cup {jobData.id} |->
                        IF j = jobData.id THEN NewJob(jobData) ELSE jobs[j]]
          /\ failures' = [j \in (DOMAIN jobs) \cup {jobData.id} |->
                            IF j = jobData.id THEN 0 ELSE failures[j]]
          /\ requeues' = [j \in (DOMAIN jobs) \cup {jobData.id} |->
                            IF j = jobData.id THEN 0 ELSE requeues[j]]
          /\ reported' = [j \in (DOMAIN jobs) \cup {jobData.id} |->
                            IF j = jobData.id THEN NoReplies ELSE reported[j]]
          /\ isDbChanged' = TRUE
          /\ last' = Op("enqueue", jobData.id, 201, 0)
  /\ UNCHANGED <<running, config, workerQueue, workerJobMap, live, nextPid, toChild,
                 toParent, isShuttingDown, idleListener, exited, exitCode, saved, disk, now>>

\* ----------------------------------------------------------------- DLQ
\* Variant: the requeue leaves attempts as it is.
RequeuedKeepingAttempts(row) == [row EXCEPT !.state = "pending", !.run_after = 0]

\* SET state = 'pending', attempts = 0, run_after = 0
Requeued(row) == [row EXCEPT !.state = "pending", !.attempts = 0, !.run_after = 0]

\* Variant: ... WHERE id = $id, whatever the row's state.
WithId(jobId) == {j \in DOMAIN jobs : j = jobId}

\* The rows a DLQ UPDATE matches: ... WHERE id = $id AND state = 'dead'
DeadWithId(jobId) == {j \in DOMAIN jobs : j = jobId /\ jobs[j].state = "dead"}

\* Variant: the UPDATE of retry-all without its WHERE clause.
Rows == DOMAIN jobs

\* ... WHERE state = 'dead'
DeadRows == {j \in DOMAIN jobs : jobs[j].state = "dead"}

RequeueRows(rows) ==
  [j \in DOMAIN jobs |-> IF j \in rows THEN Requeued(jobs[j]) ELSE jobs[j]]

\* The history counter after the rows are requeued.
Forgotten(rows) ==
  [j \in DOMAIN failures |-> IF j \in rows THEN 0 ELSE failures[j]]

\* The history counter of requeues after the rows are requeued.
RequeueCounted(rows) ==
  [j \in DOMAIN requeues |->
     IF j \in rows /\ requeues[j] < MaxRequeues THEN requeues[j] + 1 ELSE requeues[j]]

\* jobId.trim() === ''
IsBlank(jobId) == jobId = " "

\* POST /dlq/retry/:id
DlqRetryOne(jobId) ==
  /\ ~exited
  /\ IF isShuttingDown
     THEN /\ last' = Op("dlq_retry", jobId, 503, 0)
          /\ UNCHANGED <<jobs, isDbChanged, failures, requeues, reported>>
     ELSE IF IsBlank(jobId)
     THEN /\ last' = Op("dlq_retry", jobId, 400, 0)
          /\ UNCHANGED <<jobs, isDbChanged, failures, requeues, reported>>
     ELSE LET changes == Cardinality(DeadWithId(jobId)) IN
          /\ jobs' = RequeueRows(DeadWithId(jobId))
          /\ failures' = Forgotten(DeadWithId(jobId))
          /\ requeues' = RequeueCounted(DeadWithId(jobId))
          /\ UNCHANGED reported
          /\ IF changes = 0
             THEN /\ last' = Op("dlq_retry", jobId, 404, 0)
                  /\ UNCHANGED isDbChanged
             ELSE /\ isDbChanged' = TRUE
                  /\ last' = Op("dlq_retry", jobId, 200, 0)
  /\ UNCHANGED <<running, config, workerQueue, workerJobMap, live, nextPid, toChild,
                 toParent, isShuttingDown, idleListener, exited, exitCode, saved, disk, now>>

\* POST /dlq/retry-all
DlqRetryAll ==
  /\ ~exited
  /\ IF isShuttingDown
     THEN /\ last' = Op("dlq_retry_all", "", 503, 0)
          /\ UNCHANGED <<jobs, isDbChanged, failures, requeues, reported>>
     ELSE LET count == Cardinality(DeadRows) IN
          /\ jobs' = RequeueRows(DeadRows)
          /\ failures' = Forgotten(DeadRows)
          /\ requeues' = RequeueCounted(DeadRows)
          /\ UNCHANGED reported
          /\ IF count > 0
             THEN /\ isDbChanged' = TRUE
                  /\ last' = Op("dlq_retry_all", "", 200, count)
             ELSE /\ last' = Op("dlq_retry_all", "", 404, 0)
                  /\ UNCHANGED isDbChanged
  /\ UNCHANGED <<running, config, workerQueue, workerJobMap, live, nextPid, toChild,
                 toParent, isShuttingDown, idleListener, exited, exitCode, saved, disk, now>>

\* -------------------------------------------------------------- config
\* The text of a value is the sequence of its characters: String(value),
\* which is what parseInt works on whether the body held a number or a
\* string.
Digits == {"0", "1", "2", "3", "4", "5", "6", "7", "8", "9"}

IsDigit(c) == c \in Digits

DigitValue(c) ==
  CASE c = "0" -> 0 [] c = "1" -> 1 [] c = "2" -> 2 [] c = "3" -> 3 [] c = "4" -> 4
    [] c = "5" -> 5 [] c = "6" -> 6 [] c = "7" -> 7 [] c = "8" -> 8 [] c = "9" -> 9

DigitChar(d) ==
  CASE d = 0 -> "0" [] d = 1 -> "1" [] d = 2 -> "2" [] d = 3 -> "3" [] d = 4 -> "4"
    [] d = 5 -> "5" [] d = 6 -> "6" [] d = 7 -> "7" [] d = 8 -> "8" [] d = 9 -> "9"

\* The text without its leading white space.
RECURSIVE TrimStart(_)
TrimStart(text) ==
  IF text # <<>> /\ Head(text) = " " THEN TrimStart(Tail(text)) ELSE text

\* The longest prefix of the text that consists of digits.
RECURSIVE DigitPrefix(_)
DigitPrefix(text) ==
  IF text # <<>> /\ IsDigit(Head(text))
  THEN <<Head(text)>> \o DigitPrefix(Tail(text))
  ELSE <<>>

\* The number a sequence of digits denotes, after the digits read so far.
RECURSIVE Decimal(_, _)
Decimal(digits, read) ==
  IF digits = <<>> THEN read
  ELSE Decimal(Tail(digits), 10 * read + DigitValue(Head(digits)))

NaN == <<>>

\* parseInt(value, 10): leading white space is skipped, a sign is read, then
\* as many digits as there are; whatever follows them is ignored.  <<n>> is
\* the number n, NaN the result when no digit is found.
ParseInt(text) ==
  LET trimmed == TrimStart(text)
      signed == trimmed # <<>> /\ Head(trimmed) \in {"-", "+"}
      digits == DigitPrefix(IF signed THEN Tail(trimmed) ELSE trimmed)
  IN IF digits = <<>> THEN NaN
     ELSE IF signed /\ Head(trimmed) = "-" THEN <<0 - Decimal(digits, 0)>>
     ELSE <<Decimal(digits, 0)>>

\* String(n) of an integer n: its decimal digits
RECURSIVE String(_)
String(n) ==
  IF n < 0 THEN <<"-">> \o String(0 - n)
  ELSE IF n < 10 THEN <<DigitChar(n)>>
  ELSE String(n \div 10) \o <<DigitChar(n % 10)>>

\* CONFIG_SCHEMA: the recognized keys, all of type integer, with their min
CONFIG_SCHEMA ==
  [max_retries |-> 0, backoff_base |-> 1, backoff_factor_ms |-> 0,
   tick_interval_ms |-> 50, save_interval_ms |-> 1000]

\* CONFIG_SCHEMA[key].min
SchemaMin(key) == CONFIG_SCHEMA[key]

\* validateAndSanitize: a key without a schema is valid with its text as it
\* is; the text for a recognized key is parsed, and is valid when that gives
\* a number not below the minimum, sanitized to String(parsedValue).
ValidateAndSanitize(key, value) ==
  IF key \notin DOMAIN CONFIG_SCHEMA THEN [valid |-> TRUE, value |-> value]
  ELSE LET parsedValue == ParseInt(value) IN
       IF parsedValue = NaN THEN [valid |-> FALSE, value |-> <<>>]
       ELSE IF parsedValue[1] < SchemaMin(key) THEN [valid |-> FALSE, value |-> <<>>]
       ELSE [valid |-> TRUE, value |-> String(parsedValue[1])]

Valid(key, value) == ValidateAndSanitize(key, value).valid

\* What `last` records of a POST /config: the key, the text of the value
\* sent, the status, and the sanitized value the 200 response returns.
ConfigOp(key, value, status, body) ==
  [op |-> "config_set", id |-> key, status |-> status, count |-> 0,
   value |-> value, body |-> body]

\* config[key] = sanitizedValue.  The sanitized value of a recognized key
\* is kept as the retry policy reads it, parseInt(config[key], 10); that of
\* any other key is kept as its text.
ConfigWith(key, sanitizedValue) ==
  [k \in (DOMAIN config) \cup {key} |->
     IF k # key THEN config[k]
     ELSE IF key \in DOMAIN CONFIG_SCHEMA THEN ParseInt(sanitizedValue)[1]
     ELSE sanitizedValue]

\* Variant: the route stores the value without setting the dirty flag.
ConfigSetUnflagged(key, value) ==
  /\ ~exited
  /\ LET validation == ValidateAndSanitize(key, value) IN
     IF key # "" /\ validation.valid
     THEN /\ config' = ConfigWith(key, validation.value)
          /\ last' = ConfigOp(key, value, 200, validation.value)
          /\ UNCHANGED isDbChanged
     ELSE /\ last' = ConfigOp(key, value, 400, <<>>)
          /\ UNCHANGED <<config, isDbChanged>>
  /\ UNCHANGED <<running, reported, failures, requeues,
                 jobs, workerQueue, workerJobMap, live, nextPid, toChild,
                 toParent, isShuttingDown, idleListener, exited, exitCode, saved, disk, now>>

\* POST /config with a value in the body: 400 for a missing key or an
\* invalid value, otherwise setConfig, the dirty flag and the in-memory
\* config.  The route has no shutting-down guard.
ConfigSet(key, value) ==
  /\ ~exited
  /\ LET validation == ValidateAndSanitize(key, value) IN
     IF key # "" /\ validation.valid
     THEN /\ config' = ConfigWith(key, validation.value)
          /\ isDbChanged' = TRUE
          /\ last' = ConfigOp(key, value, 200, validation.value)
     ELSE /\ last' = ConfigOp(key, value, 400, <<>>)
          /\ UNCHANGED <<config, isDbChanged>>
  /\ UNCHANGED <<running, reported, failures, requeues,
                 jobs, workerQueue, workerJobMap, live, nextPid, toChild,
                 toParent, isShuttingDown, idleListener, exited, exitCode, saved, disk, now>>

\* --------------------------------------------------------------- reads
\* getJobs(state, db): the rows in the state, or all rows when none is named.
GetJobs(state) == {j \in DOMAIN jobs : state = "" \/ jobs[j].state = state}

\* The routes that only read answer 200 with what they read; `last` records
\* the number of rows (GET /list, GET /dlq) or of bound workers (GET /status).
Read(name, id, count) ==
  /\ ~exited
  /\ last' = Op(name, id, 200, count)
  /\ UNCHANGED <<running,
                 reported, failures, requeues, jobs, config, workerQueue, workerJobMap, live,
                 nextPid, toChild, toParent, isShuttingDown, isDbChanged,
                 idleListener, exited, exitCode, saved, disk, now>>

\* GET /list?state=...
ListJobs(state) == Read("list", state, Cardinality(GetJobs(state)))

\* GET /dlq
DlqList == Read("dlq_list", "", Cardinality(GetJobs("dead")))

\* getWorkerStats: the sizes of the binding map and of the idle queue.
GetWorkerStats ==
  LET processing == Cardinality(DOMAIN workerJobMap)
      idle == Len(workerQueue) IN
  [processing |-> processing, idle |-> idle, live |-> processing + idle]

\* jobSummary of GET /status: the number of rows in each state.
JobSummary ==
  [state \in {"pending", "processing", "completed", "failed", "dead"} |->
     Cardinality({j \in DOMAIN jobs : jobs[j].state = state})]

\* The body GET /status answers with.
StatusBody == [jobSummary |-> JobSummary, workerSummary |-> GetWorkerStats]

\* GET /status
Status == Read("status", "", ProcessingJobCount)

\* ---------------------------------------------------- persistence loop
\* Variant: the flag is cleared whatever saveDb returned.
PersistenceTickClearing ==
  /\ ~exited
  /\ IF isDbChanged
     THEN \E ok \in BOOLEAN :
            /\ disk' = SaveDb(ok, [jobs |-> jobs, config |-> config])
            /\ saved' = IF ok THEN "ok" ELSE "failed"
            /\ isDbChanged' = FALSE
     ELSE UNCHANGED <<disk, saved, isDbChanged>>
  /\ last' = NoRequest
  /\ UNCHANGED <<running,
                 reported, failures, requeues, jobs, config, workerQueue, workerJobMap, live,
                 nextPid, toChild, toParent, isShuttingDown, idleListener,
                 exited, exitCode, now>>

\* One firing of the interval startPersistenceLoop sets: save when the
\* dirty flag is set, clear the flag when saveDb returned true.
PersistenceTick ==
  /\ ~exited
  /\ IF isDbChanged
     THEN \E ok \in BOOLEAN :
            /\ disk' = SaveDb(ok, [jobs |-> jobs, config |-> config])
            /\ saved' = IF ok THEN "ok" ELSE "failed"
            /\ isDbChanged' = ~ok
     ELSE UNCHANGED <<disk, saved, isDbChanged>>
  /\ last' = NoRequest
  /\ UNCHANGED <<running,
                 reported, failures, requeues, jobs, config, workerQueue, workerJobMap, live,
                 nextPid, toChild, toParent, isShuttingDown, idleListener,
                 exited, exitCode, now>>

\* ------------------------------------------------------------ shutdown
\* initiateShutdown (SIGINT or POST /shutdown)
InitiateShutdown ==
  /\ ~exited
  /\ ~isShuttingDown
  /\ isShuttingDown' = TRUE
  /\ last' = NoRequest
  /\ IF ProcessingJobCount = 0
     THEN /\ \E ok \in BOOLEAN :
               AwaitIdleAndExit(ok, [jobs |-> jobs, config |-> config])
          /\ UNCHANGED idleListener
     ELSE /\ idleListener' = TRUE
          /\ UNCHANGED <<exited, exitCode, saved, disk>>
  /\ UNCHANGED <<running, reported, failures, requeues,
                 jobs, config, workerQueue, workerJobMap, live, nextPid,
                 toChild, toParent, isDbChanged, now>>

\* ------------------------------------------------------------- restart
\* The process is killed from outside (SIGKILL, power loss): no handler
\* runs, nothing is saved, and the children go with it.
Kill ==
  /\ ~exited
  /\ exited' = TRUE
  /\ last' = NoRequest
  /\ UNCHANGED <<running,
                 reported, failures, requeues, jobs, config, workerQueue, workerJobMap, live,
                 nextPid, toChild, toParent, isShuttingDown, isDbChanged,
                 idleListener, exitCode, saved, disk, now>>

\* startWorkers(count) in a new process after the previous one has gone:
\* getDb loads queue.db into memory as it is, getConfig reads the config
\* from it, init(count) forks the workers.  No statement at start touches
\* the rows of jobs.  The history counters start again with the process.
StartWorkers(count) ==
  /\ exited
  /\ jobs' = disk.jobs
  /\ config' = disk.config
  /\ workerQueue' = <<>>
  /\ workerJobMap' = <<>>
  /\ live' = 1..count
  /\ nextPid' = count + 1
  /\ toParent' = [p \in Pids |-> IF p <= count THEN <<[status |-> "ready"]>> ELSE <<>>]
  /\ toChild' = [p \in Pids |-> <<>>]
  /\ isShuttingDown' = FALSE
  /\ isDbChanged' = FALSE
  /\ idleListener' = FALSE
  /\ exited' = FALSE
  /\ exitCode' = NULL
  /\ saved' = "none"
  /\ failures' = [j \in DOMAIN disk.jobs |-> 0]
  /\ requeues' = [j \in DOMAIN disk.jobs |-> 0]
  /\ reported' = [j \in DOMAIN disk.jobs |-> NoReplies]
  /\ last' = NoRequest
  /\ running' = [p \in Pids |-> <<>>]
  /\ UNCHANGED <<disk, now>>

\* ------------------------------------------------------- specification
\* The steps of the engine itself: the clock, the scheduler, the children
\* and their messages.
Engine ==
  \/ AdvanceClock
  \/ Tick
  \/ \E w \in Pids : ChildRun(w)
  \/ \E w \in Pids : HandleWorkerMessage(w)

SmallConfig == [max_retries |-> 1, backoff_base |-> 1, backoff_factor_ms |-> 1]

\* Spec: one worker that may crash and is respawned; clients enqueue,
\* requeue from the DLQ, set the retry cap and shut the server down.
Bodies ==
  {Body(id, command, NULL, 0) : id \in JobIds, command \in {"", "exit 0", "exit 1"}}

Init == InitWith({1}, {SmallConfig})

Next ==
  \/ Engine
  \/ \E w \in Pids : WorkerExit(w)
  \/ \E jobData \in Bodies : Enqueue(jobData)
  \/ \E jobId \in JobIds \cup {" "} : DlqRetryOne(jobId)
  \/ DlqRetryAll
  \/ \E value \in {-1, 0} : ConfigSet("max_retries", String(value))
  \/ InitiateShutdown

Spec == Init /\ [][Next]_vars

\* SpecPool: two workers that do not crash, under a fixed configuration.
InitPool == InitWith({2}, {SmallConfig})

NextPool ==
  \/ Engine
  \/ \E jobData \in Bodies : Enqueue(jobData)
  \/ \E jobId \in JobIds : DlqRetryOne(jobId)
  \/ DlqRetryAll

SpecPool == InitPool /\ [][NextPool]_vars

\* SpecRetry: one worker that does not crash; jobs with and without a cap
\* of their own, under every retry policy the config routes can set.
RetryBodies ==
  {Body(id, command, max_retries, 0) :
     id \in {"unknown"}, command \in {"", "exit 1"},
     max_retries \in {NULL, <<0>>, <<2>>}}

RetryConfigs ==
  [max_retries : {0, 1}, backoff_base : {1, 3}, backoff_factor_ms : {0, 1}]

InitRetry == InitWith({1}, RetryConfigs)

NextRetry ==
  \/ Engine
  \/ \E jobData \in RetryBodies : Enqueue(jobData)
  \/ \E value \in {0, 1} : ConfigSet("max_retries", String(value))
  \/ \E value \in {0, 1, 3} : ConfigSet("backoff_base", String(value))
  \/ \E value \in {-1, 0, 1} : ConfigSet("backoff_factor_ms", String(value))

SpecRetry == InitRetry /\ [][NextRetry]_vars

\* The engine with one worker and no backoff delay (backoff_factor_ms = 0),
\* so that a job can run through its whole retry budget, be requeued from
\* the DLQ and run through it again; fixed config, no crashes.
ZeroBackoffConfig == [max_retries |-> 1, backoff_base |-> 1, backoff_factor_ms |-> 0]

InitDlq == InitWith({1}, {ZeroBackoffConfig})

NextDlq ==
  \/ Engine
  \/ \E jobData \in Bodies : Enqueue(jobData)
  \/ \E jobId \in JobIds : DlqRetryOne(jobId)
  \/ DlqRetryAll

SpecDlq == InitDlq /\ [][NextDlq]_vars

\* The lifecycle: two workers, the requests of every route, shutdown, and
\* workers that die while the server is shutting down (with the pool at its
\* size, a worker that dies earlier would need a pid beyond MaxPids).  With
\* max_retries = 0 a job is dead on its first failure.
NoRetryConfig == [max_retries |-> 0, backoff_base |-> 1, backoff_factor_ms |-> 1]

InitLife == InitWith({2}, {NoRetryConfig})

NextLife ==
  \/ Engine
  \/ \E w \in Pids : WorkerExit(w)
  \/ \E jobData \in Bodies : Enqueue(jobData)
  \/ \E jobId \in JobIds : DlqRetryOne(jobId)
  \/ DlqRetryAll
  \/ \E state \in {"", "pending"} : ListJobs(state)
  \/ DlqList
  \/ Status
  \/ InitiateShutdown

SpecLife == InitLife /\ [][NextLife]_vars

\* The snapshots: one worker, the periodic save loop, config changes,
\* crashes and shutdown.
SaveBodies == {Body("a", command, NULL, 0) : command \in {"", "exit 0", "exit 1"}}

InitSave == InitWith({1}, {SmallConfig})

NextSave ==
  \/ Engine
  \/ \E w \in Pids : WorkerExit(w)
  \/ \E jobData \in SaveBodies : Enqueue(jobData)
  \/ \E value \in {-1, 0} : ConfigSet("max_retries", String(value))
  \/ PersistenceTick
  \/ InitiateShutdown

SpecSave == InitSave /\ [][NextSave]_vars

\* The table as the list route shows it: one worker that may crash, jobs
\* that ask for a delay (run_after = 1) or for none, the DLQ routes and
\* GET /list with and without a state filter.
ListBodies ==
  {Body(id, command, NULL, run_after) :
     id \in JobIds, command \in {"exit 0", "exit 1"}, run_after \in {0, 1}}

InitList == InitWith({1}, {NoRetryConfig})

NextList ==
  \/ Engine
  \/ \E w \in Pids : WorkerExit(w)
  \/ \E jobData \in ListBodies : Enqueue(jobData)
  \/ \E jobId \in JobIds : DlqRetryOne(jobId)
  \/ DlqRetryAll
  \/ \E state \in {"", "dead"} : ListJobs(state)

SpecList == InitList /\ [][NextList]_vars

\* The process over several lifetimes: one worker, the periodic save loop,
\* a kill at any moment and a new start from the snapshot on disk.  The
\* commands are valid ones and the worker does not crash.
RestartBodies == {Body("a", command, NULL, 0) : command \in {"exit 0", "exit 1"}}

InitRestart == InitWith({1}, {SmallConfig})

NextRestart ==
  \/ Engine
  \/ \E jobData \in RestartBodies : Enqueue(jobData)
  \/ PersistenceTick
  \/ InitiateShutdown
  \/ Kill
  \/ StartWorkers(1)

SpecRestart == InitRestart /\ [][NextRestart]_vars

\* The engine left to run: one worker that does not crash, no shutdown,
\* more jobs than workers, a job dead on its first failure.  The interval
\* timer keeps ticking, a child that was sent a job runs it, a message a
\* child sent is delivered, and time passes.
InitFair == InitWith({1}, {NoRetryConfig})

NextFair ==
  \/ Engine
  \/ \E jobData \in Bodies : Enqueue(jobData)

SpecFair ==
  /\ InitFair
  /\ [][NextFair]_vars
  /\ WF_vars(AdvanceClock)
  /\ WF_vars(Tick)
  /\ \A w \in Pids : WF_vars(ChildRun(w))
  /\ \A w \in Pids : WF_vars(HandleWorkerMessage(w))

\* The backoff at its limits: one worker, a failing job, and the backoff
\* settings a client may set, up to a factor of one day and just beyond.
OneDay == 86400000

BackoffBodies ==
  {Body("a", "exit 1", max_retries, 0) : max_retries \in {NULL, <<2>>}}

InitBackoff == InitWith({1}, {SmallConfig})

NextBackoff ==
  \/ Engine
  \/ \E jobData \in BackoffBodies : Enqueue(jobData)
  \/ \E value \in {1, 2} : ConfigSet("backoff_base", String(value))
  \/ \E value \in {-1, 0, OneDay, OneDay + 1} : ConfigSet("backoff_factor_ms", String(value))

SpecBackoff == InitBackoff /\ [][NextBackoff]_vars

\* The config route: one worker, a failing job, and POST /config bodies with
\* recognized keys and values at and below their minimum, values that are
\* not integers, a key without a schema and an empty key.
ConfigBodies ==
  {<<"max_retries", String(-1)>>, <<"max_retries", String(0)>>,
   <<"max_retries", <<"1", ".", "5">>>>, <<"max_retries", <<"a", "b", "c">>>>,
   <<"backoff_base", String(0)>>, <<"backoff_base", String(2)>>,
   <<"backoff_base", <<"2", "x">>>>,
   <<"backoff_factor_ms", String(-1)>>, <<"backoff_factor_ms", String(0)>>,
   <<"tick_interval_ms", String(49)>>, <<"tick_interval_ms", String(50)>>,
   <<"save_interval_ms", String(999)>>, <<"save_interval_ms", String(1000)>>,
   <<"colour", <<"r", "e", "d">>>>,
   <<"", String(1)>>}

InitConfig == InitWith({1}, {SmallConfig})

NextConfig ==
  \/ Engine
  \/ Enqueue(Body("a", "exit 1", NULL, 0))
  \/ \E body \in ConfigBodies : ConfigSet(body[1], body[2])

SpecConfig == InitConfig /\ [][NextConfig]_vars

\* The worker child event by event: one worker, one job id, commands that
\* are missing, unparseable, succeeding and failing; the command's 'close'
\* and 'error' events arrive in either order.
ChildBodies ==
  {Body("a", command, NULL, 0) : command \in {"", " ", "exit 0", "exit 1"}}

InitChild == InitWith({1}, {NoRetryConfig})

NextChild ==
  \/ AdvanceClock
  \/ Tick
  \/ \E w \in Pids : ChildReceive(w)
  \/ \E w \in Pids : ChildClose(w)
  \/ \E w \in Pids : ChildError(w)
  \/ \E w \in Pids : HandleWorkerMessage(w)
  \/ \E jobData \in ChildBodies : Enqueue(jobData)

SpecChild == InitChild /\ [][NextChild]_vars

\* The dirty flag: SpecSave with the DLQ routes, so that every operation
\* that writes to the store, and the periodic save, take part.
InitDirty == InitWith({1}, {SmallConfig})

NextDirty ==
  \/ NextSave
  \/ DlqRetryOne("a")
  \/ DlqRetryAll

SpecDirty == InitDirty /\ [][NextDirty]_vars

\* ================================================================ claims
\* The workers bound to job id j.
BoundTo(j) == {w \in DOMAIN workerJobMap : workerJobMap[w] = j}

\* C1: no job id is ever bound to more than one worker at the same instant.
C1_NoJobOnTwoWorkers ==
  \A j \in DOMAIN jobs : Cardinality(BoundTo(j)) <= 1

\* C2: each worker is bound to at most one job id, and the job a worker is
\* bound to is in state processing.
C2_BoundJobIsProcessing ==
  \A w \in DOMAIN workerJobMap :
    /\ workerJobMap[w] \in DOMAIN jobs
    /\ jobs[workerJobMap[w]].state = "processing"

\* C3: while the process runs, every row in state processing is bound to
\* exactly one live worker.
C3_ProcessingHasOneLiveWorker ==
  ~exited =>
    \A j \in DOMAIN jobs :
      jobs[j].state = "processing" => Cardinality(BoundTo(j) \cap live) = 1

\* C4: a completed row never changes state again, and a dead row changes
\* state only in the step of a DLQ requeue that answers 200.
C4_TerminalAbsorbing ==
  [][\A j \in DOMAIN jobs :
       /\ jobs[j].state = "completed" => jobs'[j].state = "completed"
       /\ (jobs[j].state = "dead" /\ jobs'[j].state # "dead") =>
            (last'.op \in {"dlq_retry", "dlq_retry_all"} /\ last'.status = 200)]_vars

\* The step handles a message of worker w: only that shortens its channel.
Handled(w) == Len(toParent'[w]) < Len(toParent[w])

\* The step handles a failed reply of worker w that names a row of the table.
FailedReply(w) ==
  /\ Handled(w)
  /\ Head(toParent[w]).status = "failed"
  /\ Head(toParent[w]).job.id \in DOMAIN jobs

\* The attempts the job record of a reply carries (none counts as 0).
Carried(job) == IF "attempts" \in DOMAIN job THEN job.attempts ELSE 0

\* The cap the job record of a reply carries, or the configured one.
Cap(job) ==
  IF "max_retries" \in DOMAIN job /\ job.max_retries # NULL
  THEN job.max_retries[1]
  ELSE config.max_retries

EffectiveMaxRetries(j) ==
  IF jobs[j].max_retries # NULL THEN jobs[j].max_retries[1] ELSE config.max_retries

\* C6: under a fixed configuration and without crashes, a job is dead
\* exactly from its (effectiveMaxRetries + 1)-th failed reply on, and then
\* has attempts = effectiveMaxRetries + 1.
C6_DeadExactlyAfterBudget ==
  \A j \in DOMAIN jobs :
    /\ jobs[j].state = "dead" =>
         /\ failures[j] = EffectiveMaxRetries(j) + 1
         /\ jobs[j].attempts = EffectiveMaxRetries(j) + 1
    /\ failures[j] >= EffectiveMaxRetries(j) + 1 => jobs[j].state = "dead"

C8_ExitResetsBoundJob ==
  [][\A w \in live :
       (w \notin live' /\ w \in DOMAIN workerJobMap) =>
         LET j == workerJobMap[w] IN
         /\ w \notin DOMAIN workerJobMap'
         /\ \A k \in DOMAIN jobs : k # j => jobs'[k] = jobs[k]
         /\ jobs[j].state = "processing" =>
              /\ jobs'[j] = [jobs[j] EXCEPT !.state = "pending"]
              /\ jobs'[j].run_after <= now'
         /\ jobs[j].state # "processing" => jobs'[j] = jobs[j]]_vars

\* Worker w ran job j and died before its reply was handled: its exit was
\* handled while it was bound to j, and j is pending again.
C8_Witness ==
  \E j \in DOMAIN jobs, w \in Pids \ live :
    /\ w < nextPid
    /\ w \notin DOMAIN workerJobMap
    /\ toParent[w] # <<>>
    /\ Head(toParent[w]).status = "completed"
    /\ Head(toParent[w]).job.id = j
    /\ jobs[j].state = "pending"
    /\ jobs[j].attempts = 0

RequeueOf(j) ==
  /\ jobs[j].state = "dead"
  /\ last'.status = 200
  /\ \/ last'.op = "dlq_retry" /\ last'.id = j
     \/ last'.op = "dlq_retry_all"

C11_RequeuedJobFullBudget ==
  \A j \in DOMAIN jobs :
    requeues[j] > 0 =>
      /\ jobs[j].state = "dead" =>
           /\ failures[j] = EffectiveMaxRetries(j) + 1
           /\ jobs[j].attempts = EffectiveMaxRetries(j) + 1
      /\ failures[j] >= EffectiveMaxRetries(j) + 1 => jobs[j].state = "dead"

C13_WritesRefusedReadsServed ==
  [][isShuttingDown =>
       /\ last'.op \in {"enqueue", "dlq_retry", "dlq_retry_all"} =>
            /\ last'.status = 503
            /\ jobs' = jobs
            /\ isDbChanged' = isDbChanged
       /\ last'.op \in {"list", "dlq_list", "status"} => last'.status = 200]_vars

\* An enqueue of a new id was refused while a job was still running.
C13_Witness ==
  /\ isShuttingDown /\ ~exited
  /\ last.op = "enqueue" /\ last.status = 503
  /\ last.id \notin DOMAIN jobs
  /\ ProcessingJobCount > 0

\* C14: once shutdown has begun, a config-set request is answered 503 and
\* the config is left as it was.
C14_ConfigSetRefused ==
  [][(isShuttingDown /\ last'.op = "config_set") =>
       /\ last'.status = 503
       /\ config' = config]_vars

\* C15: after the shutting-down flag is set no step dispatches a job: no row
\* moves from pending to processing, and no binding is created or changed.
C15_NoDispatchAfterShutdown ==
  [][isShuttingDown =>
       /\ \A j \in DOMAIN jobs :
            ~(jobs[j].state = "pending" /\ jobs'[j].state = "processing")
       /\ DOMAIN workerJobMap' \subseteq DOMAIN workerJobMap
       /\ \A w \in DOMAIN workerJobMap' : workerJobMap'[w] = workerJobMap[w]]_vars

\* The server is shutting down while a live worker is idle and a job is
\* eligible.
C15_Witness ==
  /\ isShuttingDown /\ ~exited
  /\ workerQueue # <<>>
  /\ Head(workerQueue) \in live
  /\ \E j \in DOMAIN jobs : Eligible(j)

\* C16: shutdown cancels nothing and the process exits only when no worker
\* is bound: the step that begins shutdown leaves the children, their jobs,
\* the bindings and the rows alone; at the step that exits, the processing
\* count is zero and the snapshot written is the store as that step left
\* it, the last terminal reply applied.
C16_ExitOnlyWhenIdle ==
  [][/\ (~isShuttingDown /\ isShuttingDown') =>
          /\ live' = live
          /\ toChild' = toChild
          /\ workerJobMap' = workerJobMap
          /\ jobs' = jobs
     /\ (~exited /\ exited') =>
          /\ DOMAIN workerJobMap' = {}
          /\ saved' = "ok" => disk' = [jobs |-> jobs', config |-> config']]_vars

\* The process has exited after waiting: a worker died while it waited
\* (a worker's exit is handled here only during shutdown), a job has
\* completed, and the snapshot on disk is the final store.
C16_Witness ==
  /\ exited
  /\ Cardinality(live) = 1
  /\ saved = "ok"
  /\ disk = [jobs |-> jobs, config |-> config]
  /\ \E j \in DOMAIN jobs : jobs[j].state = "completed"

\* C17: after shutdown begins the lifecycle controller is notified when the
\* processing count first becomes zero, and the process then snapshots and
\* exits in the same handler: the server is never shutting down with a
\* processing count of zero and the process still running.
C17_NotifiedWhenIdle ==
  (isShuttingDown /\ ProcessingJobCount = 0) => exited

\* C18: the process exits with code 0 exactly when the final snapshot was
\* written, and with a non-zero code when it failed.
C18_ExitCodeReflectsSnapshot ==
  exited => (exitCode = <<0>> <=> saved = "ok")

\* C19: the periodic snapshotter writes only when the dirty flag is set; the
\* flag is cleared only by a successful write of the store; a failed write
\* leaves the file and the flag as they were and the process running, so
\* that the next interval saves again.
C19_SnapshotGatedByDirtyFlag ==
  [][/\ (~exited' /\ (disk' # disk \/ saved' # saved)) => isDbChanged
     /\ (isDbChanged /\ ~isDbChanged') =>
          /\ saved' = "ok"
          /\ disk' = [jobs |-> jobs, config |-> config]
     /\ (~exited' /\ saved' = "failed" /\ saved # "failed") =>
          /\ isDbChanged'
          /\ disk' = disk]_vars

\* A periodic save failed: the file is behind the store, the flag is still
\* set and the process is running.
C19_Witness ==
  /\ saved = "failed"
  /\ isDbChanged
  /\ ~exited /\ ~isShuttingDown
  /\ disk.jobs # jobs

\* C20: while the server is not shutting down, an enqueue with an id the
\* table already holds is answered with an error (500), inserts nothing and
\* leaves every row, the existing one included, as it was.
C20_DuplicateIdRejected ==
  [][(last'.op = "enqueue" /\ ~isShuttingDown /\ last'.id \in DOMAIN jobs) =>
       /\ last'.status = 500
       /\ jobs' = jobs]_vars

\* An enqueue named the id of a row with attempts = 1 and was answered 500;
\* the row is as it was.
C20_Witness ==
  /\ last.op = "enqueue" /\ last.status = 500
  /\ last.id \in DOMAIN jobs
  /\ jobs[last.id].attempts = 1
  /\ jobs[last.id].state = "pending"

\* C21: a successful enqueue creates a row with state = pending, attempts = 0
\* and run_after equal to the supplied value (0 when none is supplied); no
\* step ever removes a row from the jobs table, and an unfiltered list call
\* returns every row there is.
C21_EnqueuedRowStaysListed ==
  [][/\ \A jobData \in ListBodies :
          (Enqueue(jobData) /\ last'.status = 201) =>
            /\ jobs'[jobData.id].state = "pending"
            /\ jobs'[jobData.id].attempts = 0
            /\ jobs'[jobData.id].run_after = jobData.run_after
     /\ DOMAIN jobs \subseteq DOMAIN jobs'
     /\ (last'.op = "list" /\ last'.id = "") =>
          last'.count = Cardinality(DOMAIN jobs')]_vars

\* A list call returns both rows, one of them enqueued with a delay and
\* since run to completion, the other dead.
C21_Witness ==
  /\ last.op = "list"
  /\ last.id = ""
  /\ last.count = 2
  /\ \E j \in DOMAIN jobs : jobs[j].state = "completed" /\ jobs[j].run_after = 1
  /\ \E j \in DOMAIN jobs : jobs[j].state = "dead"

\* The lexicographic order of the job ids in use: "a" sorts before "unknown".
IdRank(id) == IF id = "a" THEN 0 ELSE 1

\* The step sends job j to a worker.
Dispatched(j) ==
  /\ j \in DOMAIN jobs
  /\ jobs[j].state = "pending"
  /\ jobs'[j].state = "processing"

\* C22: a tick that dispatches picks, among the jobs eligible at that tick,
\* the one with the smallest created_at, and among eligible jobs of equal
\* created_at the one whose id is lexicographically smallest.
C22_DispatchOrder ==
  [][\A j \in DOMAIN jobs :
       Dispatched(j) =>
         \A k \in DOMAIN jobs :
           Eligible(k) =>
             \/ jobs[j].created_at < jobs[k].created_at
             \/ /\ jobs[j].created_at = jobs[k].created_at
                /\ IdRank(j) <= IdRank(k)]_vars

\* C23: a job is sent to a worker only when it is pending and its run_after
\* is at or before the time of the tick, so a job put back to pending by a
\* failure is not sent before its backoff delay has elapsed; and whenever a
\* worker is idle and a pending job's run_after has passed, the tick does
\* dispatch (that job, when no other job is eligible).
C23_DispatchOnlyWhenDue ==
  [][/\ \A j \in DOMAIN jobs :
          (\/ jobs[j].state # "processing" /\ jobs'[j].state = "processing"
           \/ \E w \in Pids : /\ w \in DOMAIN workerJobMap'
                              /\ workerJobMap'[w] = j
                              /\ ~(w \in DOMAIN workerJobMap /\ workerJobMap[w] = j))
          => /\ jobs[j].state = "pending"
             /\ jobs[j].run_after <= now
     /\ (/\ workerQueue # <<>>
         /\ \E j \in DOMAIN jobs :
              jobs[j].state = "pending" /\ jobs[j].run_after <= now)
        => ENABLED Tick
     /\ \A j \in DOMAIN jobs :
          (/\ Tick
           /\ jobs[j].state = "pending"
           /\ jobs[j].run_after <= now
           /\ \A k \in DOMAIN jobs \ {j} :
                jobs[k].state # "pending" \/ jobs[k].run_after > now)
          => jobs'[j].state = "processing"]_vars

\* A job that failed at time 0 and was given run_after = 1 is processing
\* again at time 1.
C23_Witness ==
  /\ now = 1
  /\ \E j \in DOMAIN jobs :
       /\ jobs[j].state = "processing"
       /\ jobs[j].attempts = 1
       /\ jobs[j].run_after = 1
       /\ failures[j] = 1
       /\ BoundTo(j) # {}

\* C24: after the process is restarted from a snapshot, no job is in
\* processing without a live worker bound to it.  At the start of the new
\* process no worker is bound to anything.
C24_NoProcessingAfterRestart ==
  [][(exited /\ ~exited') =>
       \A j \in DOMAIN jobs' :
         jobs'[j].state = "processing" =>
           \E w \in live' : w \in DOMAIN workerJobMap' /\ workerJobMap'[w] = j]_vars

\* C25: with no worker crash and no shutdown, every enqueued job whose
\* command succeeds eventually reaches completed, also when more jobs than
\* workers are enqueued, and once no eligible job remains the pool returns
\* to all workers idle and none processing.
C25_SucceedingJobsComplete ==
  /\ \A j \in JobIds :
       (j \in DOMAIN jobs /\ jobs[j].command = "exit 0")
         ~> (j \in DOMAIN jobs /\ jobs[j].state = "completed")
  /\ (\A j \in JobIds : ~Eligible(j))
       ~> (ProcessingJobCount = 0 /\ Len(workerQueue) = Cardinality(live))

\* The step handles a completed reply of worker w that names a row of the table.
CompletedReply(w) ==
  /\ Handled(w)
  /\ Head(toParent[w]).status = "completed"
  /\ Head(toParent[w]).job.id \in DOMAIN jobs

\* C26: a completed reply moves the job from processing to completed and
\* leaves attempts and run_after unchanged; a job that succeeds on its first
\* execution (no failed execution before it) ends completed with attempts = 0.
C26_CompletedReplyFrame ==
  [][\A w \in Pids :
       CompletedReply(w) =>
         LET j == Head(toParent[w]).job.id IN
         /\ jobs[j].state = "processing"
         /\ jobs'[j].state = "completed"
         /\ jobs'[j].attempts = jobs[j].attempts
         /\ jobs'[j].run_after = jobs[j].run_after
         /\ failures[j] = 0 => jobs'[j].attempts = 0]_vars

C28_BackoffClamped ==
  [][\A w \in Pids :
       FailedReply(w) =>
         jobs'[Head(toParent[w]).job.id].run_after <= now + OneDay]_vars

\* The text is the decimal notation of an integer.
IntegerText(text) ==
  LET digits == IF text # <<>> /\ Head(text) = "-" THEN Tail(text) ELSE text
  IN /\ digits # <<>>
     /\ \A i \in 1..Len(digits) : IsDigit(digits[i])

\* C29: config-set of a recognized key with a value that is not an integer
\* or is below the key's minimum is answered 400 and changes nothing; an
\* accepted value is stored and returned in its integer form and is the
\* value the retry policy reads from then on.
C29_ConfigValueValidated ==
  [][(last'.op = "config_set" /\ last'.id \in DOMAIN CONFIG_SCHEMA) =>
       LET key == last'.id
           value == last'.value
       IN IF ~IntegerText(value) \/ ParseInt(value)[1] < SchemaMin(key)
          THEN /\ last'.status = 400
               /\ config' = config
               /\ isDbChanged' = isDbChanged
          ELSE /\ last'.status = 200
               /\ last'.body = value
               /\ config'[key] = ParseInt(value)[1]]_vars

\* C30: config-set with a key that is not one of the recognized keys is
\* rejected as a validation error and changes neither the stored nor the
\* in-memory config.
C30_UnknownKeyRejected ==
  [][(last'.op = "config_set" /\ last'.id \notin DOMAIN CONFIG_SCHEMA) =>
       /\ last'.status = 400
       /\ config' = config
       /\ isDbChanged' = isDbChanged]_vars

\* C31: enqueue with a body that has no command or an empty one is rejected
\* as a validation error and inserts no row, so no job without an executable
\* command is ever in the jobs table.
C31_NoRowWithoutCommand ==
  \A j \in DOMAIN jobs : jobs[j].command # ""

\* C32: queue.db always holds a complete image of some earlier in-memory
\* state of the store.  Whenever the file changes it becomes the image of
\* the store as it is at that save, a save that fails or a kill leaves it as
\* it was, the periodic save clears the dirty flag only when the file is
\* that image, so is the file when the final save of a shutdown succeeded,
\* and a restart loads exactly the jobs of the file.
C32_SnapshotCompleteImage ==
  [][/\ disk' # disk => disk' = [jobs |-> jobs', config |-> config']
     /\ (isDbChanged /\ ~isDbChanged') => disk' = [jobs |-> jobs', config |-> config']
     /\ (exitCode = NULL /\ exitCode' # NULL /\ saved' = "ok") =>
          disk' = [jobs |-> jobs', config |-> config']
     /\ (exited /\ ~exited') =>
          /\ disk' = disk
          /\ jobs' = disk.jobs
          /\ config' = disk.config]_vars

\* The process was killed after a save that failed: the file still holds
\* the earlier snapshot, which has rows and is not what the memory held.
C32_Witness ==
  /\ exited
  /\ exitCode = NULL
  /\ saved = "failed"
  /\ disk.jobs # <<>>
  /\ disk.jobs # jobs

\* The workers that were forked and whose ready message is not yet handled.
Spawning ==
  {w \in live : \E i \in 1..Len(toParent[w]) : toParent[w][i].status = "ready"}

\* C33: while the process is not shutting down every worker exit spawns
\* exactly one replacement, so the workers that are spawning, idle or busy
\* always number the configured count (one, under Spec), and the pool's
\* processing count never exceeds it.
C33_PoolSizeSteady ==
  (~isShuttingDown /\ ~exited) =>
    /\ Cardinality(live) = 1
    /\ Cardinality(Spawning) + Len(workerQueue) + ProcessingJobCount = 1
    /\ ProcessingJobCount <= 1

\* C34: once shutdown has begun a worker exit never spawns a replacement:
\* the set of workers only shrinks and no pid is handed out, while the
\* worker whose exit is handled is still taken out of the idle queue and of
\* the binding map, and its bound job, if still processing, is pending again.
C34_NoRespawnDuringShutdown ==
  [][isShuttingDown =>
       /\ live' \subseteq live
       /\ nextPid' = nextPid
       /\ \A w \in live \ live' :
            /\ \A i \in 1..Len(workerQueue') : workerQueue'[i] # w
            /\ w \notin DOMAIN workerJobMap'
            /\ (w \in DOMAIN workerJobMap /\ workerJobMap[w] \in DOMAIN jobs) =>
                 LET j == workerJobMap[w] IN
                 jobs[j].state = "processing" => jobs'[j].state = "pending"]_vars

\* The only worker died during shutdown while bound to the only job: no
\* worker is left, the job is pending again and the process still waits.
C34_Witness ==
  /\ isShuttingDown
  /\ ~exited
  /\ idleListener
  /\ live = {}
  /\ workerQueue = <<>>
  /\ workerJobMap = <<>>
  /\ \E j \in DOMAIN jobs : jobs[j].state = "pending"

C37_DeadWorkerNeverIdle ==
  /\ \A i \in 1..Len(workerQueue) : workerQueue[i] \in live
  /\ \A w \in DOMAIN workerJobMap : w \in live

\* C38: handling a worker's terminal reply changes only the row of the job
\* the worker was bound to when the reply arrived: every other row keeps
\* its state, attempts and run_after, and a reply handled while the worker
\* is bound to no job, or naming another job, changes no row of another job.
C38_ReplyChangesBoundRowOnly ==
  [][\A w \in Pids :
       (/\ toParent[w] # <<>>
        /\ toParent'[w] = Tail(toParent[w])
        /\ Head(toParent[w]).status # "ready") =>
         \A j \in DOMAIN jobs :
           (w \notin DOMAIN workerJobMap \/ workerJobMap[w] # j) =>
             j \in DOMAIN jobs' /\ jobs'[j] = jobs[j]]_vars

C40_StatusConsistent ==
  /\ StatusBody.workerSummary.live =
       StatusBody.workerSummary.processing + StatusBody.workerSummary.idle
  /\ StatusBody.workerSummary.processing = StatusBody.jobSummary["processing"]

====
